---- MODULE Spec2Model ----
(***************************************************************************)
(* A model of the wecom_bot crate: the Message payload model and its JSON  *)
(* serialization (src/src/message.rs, src/src/image.rs), the client        *)
(* builders (src/src/bot.rs) and the send / upload calls of the blocking   *)
(* and the async client (src/src/bot.rs, src/src/media.rs,                 *)
(* src/src/response.rs).                                                   *)
(*                                                                         *)
(* Four specifications share the variables:                                *)
(*   Spec      message construction and the mention setters                *)
(*   SpecBuild the two builders (key, client, build)                       *)
(*   SpecBot   send and upload calls on built clients                      *)
(*   SpecMedia MediaType::from_str and MediaType::to_string                *)
(***************************************************************************)
EXTENDS Integers, Sequences, FiniteSets, TLC

VARIABLES
    msg,      \* the Message value held by the caller
    self0,    \* the receiver of the last call (the new value, for a constructor)
    lastOp,   \* the last Message operation called and its id argument
    builder,  \* the builder value in hand (WeComBotBuilder / WeComBotAsyncBuilder)
    built,    \* what build() returned, with the builder it consumed
    bot,      \* mode -> the built client (url, upload_base_url, client)
    calls,    \* call id -> the state of one send / upload call
    media     \* the last MediaType conversion: its input and what it returned

vars == <<msg, self0, lastOp, builder, built, bot, calls, media>>

msgVars == <<msg, self0, lastOp>>
buildVars == <<builder, built>>
botVars == <<bot, calls>>

----------------------------------------------------------------------------
(* Bounds of the model *)

\* longest id list passed to mentioned_list / mentioned_mobile_list
MaxLen == 2
\* longest article list passed to news
MaxArticles == 2
\* longest webhook key given to a builder
MaxKeyLen == 2
\* longest numbered article list passed to news: one more than the eight
\* articles the server takes
MaxNews == 9

----------------------------------------------------------------------------
(* Option<T> and JSON values *)

None == [some |-> FALSE]
Some(v) == [some |-> TRUE, val |-> v]

JStr(s) == [kind |-> "string", str |-> s]
JNum(n) == [kind |-> "number", num |-> n]
JArr(xs) == [kind |-> "array", items |-> xs]
JObj(ms) == [kind |-> "object", members |-> ms]
JNull == [kind |-> "null"]
Member(k, v) == [key |-> k, val |-> v]

\* the keys of a JSON object, and how often a key occurs in it
Keys(obj) == {obj.members[i].key : i \in DOMAIN obj.members}
Count(obj, k) == Cardinality({i \in DOMAIN obj.members : obj.members[i].key = k})
HasKey(obj, k) == k \in Keys(obj)
Get(obj, k) == obj.members[CHOOSE i \in DOMAIN obj.members : obj.members[i].key = k].val

\* all sequences over S of length at most n
SeqsUpTo(S, n) == UNION {[1..k -> S] : k \in 0..n}

----------------------------------------------------------------------------
(* message.rs: the wire tags *)

GROUP_REBOT_MSG_TEXT == "text"
GROUP_REBOT_MSG_MARKDOWN == "markdown"
GROUP_REBOT_MSG_IMAGE == "image"
GROUP_REBOT_MSG_NEWS == "news"
GROUP_REBOT_MSG_FILE == "file"

WireTags == {GROUP_REBOT_MSG_TEXT, GROUP_REBOT_MSG_MARKDOWN, GROUP_REBOT_MSG_IMAGE,
             GROUP_REBOT_MSG_NEWS, GROUP_REBOT_MSG_FILE}

----------------------------------------------------------------------------
(* image.rs: Image and its encoding *)

ImageNew(data) == [content |-> data]

B64Alphabet ==
    << "A","B","C","D","E","F","G","H","I","J","K","L","M","N","O","P",
       "Q","R","S","T","U","V","W","X","Y","Z","a","b","c","d","e","f",
       "g","h","i","j","k","l","m","n","o","p","q","r","s","t","u","v",
       "w","x","y","z","0","1","2","3","4","5","6","7","8","9","+","/" >>

B64Char(n) == B64Alphabet[n + 1]

\* general_purpose::STANDARD: the standard alphabet, with padding
RECURSIVE Base64Encode(_)
Base64Encode(b) ==
    IF Len(b) = 0 THEN ""
    ELSE IF Len(b) = 1 THEN
        B64Char(b[1] \div 4) \o B64Char((b[1] % 4) * 16) \o "=="
    ELSE IF Len(b) = 2 THEN
        B64Char(b[1] \div 4) \o B64Char((b[1] % 4) * 16 + (b[2] \div 16))
            \o B64Char((b[2] % 16) * 4) \o "="
    ELSE
        B64Char(b[1] \div 4) \o B64Char((b[1] % 4) * 16 + (b[2] \div 16))
            \o B64Char((b[2] % 16) * 4 + (b[3] \div 64)) \o B64Char(b[3] % 64)
            \o Base64Encode(SubSeq(b, 4, Len(b)))

\* the image contents the model builds messages from
ImgEmpty == <<>>
ImgWord == <<105, 109, 97, 103, 101>>
ImgByte == <<255>>
Images == {ImgEmpty, ImgWord, ImgByte}

\* md5::compute followed by format!("{:x}"), on the contents above
Md5Hex(b) ==
    CASE b = ImgEmpty -> "d41d8cd98f00b204e9800998ecf8427e"
      [] b = ImgWord -> "78805a221a988e79ef3f42d7c5bfd418"
      [] b = ImgByte -> "00594fd4f42ba43fc1ca0427a0576295"

\* Image::encode: (base64 of the content, md5 of the content before base64)
ImageEncode(img) == <<Base64Encode(img.content), Md5Hex(img.content)>>

----------------------------------------------------------------------------
(* message.rs: Article *)

ArticleNew(title, url) ==
    [title |-> title, description |-> None, url |-> url, pic_url |-> None]

ArticleDesc(a, d) == [a EXCEPT !.description = Some(d)]

ArticlePic(a, p) == [a EXCEPT !.pic_url = Some(p)]

----------------------------------------------------------------------------
(* message.rs: Message and its constructors *)

text(content) ==
    [msg_type |-> GROUP_REBOT_MSG_TEXT,
     body |-> [variant |-> "Text", content |-> content,
               mentioned_list |-> None, mentioned_mobile_list |-> None]]

\* a constructor that copies its neighbour's tag
markdown_text_tag(content) ==
    [msg_type |-> GROUP_REBOT_MSG_TEXT,
     body |-> [variant |-> "Markdown", content |-> content]]

markdown(content) ==
    [msg_type |-> GROUP_REBOT_MSG_MARKDOWN,
     body |-> [variant |-> "Markdown", content |-> content]]

image(img) ==
    LET enc == ImageEncode(img) IN
    [msg_type |-> GROUP_REBOT_MSG_IMAGE,
     body |-> [variant |-> "Image", base64 |-> enc[1], md5 |-> enc[2]]]

\* a constructor that keeps the first eight articles
news_first_eight(articles) ==
    [msg_type |-> GROUP_REBOT_MSG_NEWS,
     body |-> [variant |-> "News",
               articles |-> IF Len(articles) > 8 THEN SubSeq(articles, 1, 8) ELSE articles]]

news(articles) ==
    [msg_type |-> GROUP_REBOT_MSG_NEWS,
     body |-> [variant |-> "News", articles |-> articles]]

file(media_id) ==
    [msg_type |-> GROUP_REBOT_MSG_FILE,
     body |-> [variant |-> "File", media_id |-> media_id]]

\* iter.into_iter().map(Into::into).collect(): the ids, one by one, in order
Collect(ids) == [i \in 1..Len(ids) |-> ids[i]]

\* a setter whose fallback arm builds a Text message to carry the ids
mentioned_list_any_variant(m, ids) ==
    IF m.body.variant = "Text"
    THEN [m EXCEPT !.body.mentioned_list = Some(Collect(ids))]
    ELSE [msg_type |-> GROUP_REBOT_MSG_TEXT,
          body |-> [variant |-> "Text", content |-> "",
                    mentioned_list |-> Some(Collect(ids)),
                    mentioned_mobile_list |-> None]]

\* the macro inject_iter_fields!(mentioned_list, MessageBody::Text)
mentioned_list(m, ids) ==
    IF m.body.variant = "Text"
    THEN [m EXCEPT !.body.mentioned_list = Some(Collect(ids))]
    ELSE m

\* the macro instantiated with the other field's name
mentioned_mobile_list_wrong_field(m, ids) ==
    IF m.body.variant = "Text"
    THEN [m EXCEPT !.body.mentioned_list = Some(Collect(ids))]
    ELSE m

\* the macro inject_iter_fields!(mentioned_mobile_list, MessageBody::Text)
mentioned_mobile_list(m, ids) ==
    IF m.body.variant = "Text"
    THEN [m EXCEPT !.body.mentioned_mobile_list = Some(Collect(ids))]
    ELSE m

----------------------------------------------------------------------------
(* message.rs: the serde derives *)

\* a Vec<Cow<str>> as a JSON array of strings
SerStrList(xs) == JArr([i \in 1..Len(xs) |-> JStr(xs[i])])

\* #[serde(skip_serializing_if = "Option::is_none")] on an Option<Vec<Cow<str>>>
SerOptStrList(key, opt) ==
    IF opt.some THEN <<Member(key, SerStrList(opt.val))>> ELSE <<>>

\* an Option<Cow<str>> field without the skip attribute: None is written as null
SerOptStrNull(key, opt) ==
    IF opt.some THEN <<Member(key, JStr(opt.val))>> ELSE <<Member(key, JNull)>>

\* #[serde(skip_serializing_if = "Option::is_none")] on an Option<Cow<str>>
SerOptStr(key, opt) ==
    IF opt.some THEN <<Member(key, JStr(opt.val))>> ELSE <<>>

\* #[derive(Serialize)] struct Article, with pic_url renamed to picurl
SerArticle(a) ==
    JObj(<<Member("title", JStr(a.title))>>
         \o SerOptStr("description", a.description)
         \o <<Member("url", JStr(a.url))>>
         \o SerOptStr("picurl", a.pic_url))

\* the #[serde(rename = ...)] of each MessageBody variant
VariantName(b) ==
    CASE b.variant = "Text" -> "text"
      [] b.variant = "Markdown" -> "markdown"
      [] b.variant = "Image" -> "image"
      [] b.variant = "News" -> "news"
      [] b.variant = "File" -> "file"

\* the fields of the populated variant
SerFields(b) ==
    CASE b.variant = "Text" ->
            JObj(<<Member("content", JStr(b.content))>>
                 \o SerOptStrList("mentioned_list", b.mentioned_list)
                 \o SerOptStrList("mentioned_mobile_list", b.mentioned_mobile_list))
      [] b.variant = "Markdown" ->
            JObj(<<Member("content", JStr(b.content))>>)
      [] b.variant = "Image" ->
            JObj(<<Member("base64", JStr(b.base64)), Member("md5", JStr(b.md5))>>)
      [] b.variant = "News" ->
            JObj(<<Member("articles",
                          JArr([i \in 1..Len(b.articles) |-> SerArticle(b.articles[i])]))>>)
      [] b.variant = "File" ->
            JObj(<<Member("media_id", JStr(b.media_id))>>)

\* #[derive(Serialize)] enum MessageBody: externally tagged, {"<variant>": {fields}}
SerBody(b) == <<Member(VariantName(b), SerFields(b))>>

\* #[derive(Serialize)] struct Message: msgtype, then the flattened body
Serialize(m) == JObj(<<Member("msgtype", JStr(m.msg_type))>> \o SerBody(m.body))

----------------------------------------------------------------------------
(* The inputs the message operations are called with *)

Contents == {"", "Title"}
Ids == {"", "uid2"}
IdLists == SeqsUpTo(Ids, MaxLen)
MediaIds == {"", "3a8asd892asd8asd"}

ArticleValues ==
    LET a0 == ArticleNew("T", "www.qq.com") IN
    {a0, ArticleDesc(a0, "d"), ArticlePic(a0, "p"), ArticlePic(ArticleDesc(a0, "d"), "p")}

Digits == <<"0", "1", "2", "3", "4", "5", "6", "7", "8", "9">>

\* n articles, each with a title of its own: "T1", "T2", ...
Numbered(n) ==
    [i \in 1..n |-> ArticleNew("T" \o Digits[(i % 10) + 1], "www.qq.com")]

\* the numbered list with a description on every second article
Described(n) ==
    [i \in 1..n |-> IF i % 2 = 0 THEN ArticleDesc(Numbered(n)[i], "d") ELSE Numbered(n)[i]]

ArticleLists ==
    SeqsUpTo(ArticleValues, MaxArticles)
        \cup {Numbered(n) : n \in 0..MaxNews} \cup {Described(n) : n \in 0..MaxNews}

Op(name, ids) == [name |-> name, ids |-> ids]

\* the call news(articles)
OpNews(articles) == [name |-> "news", ids |-> <<>>, articles |-> articles]

----------------------------------------------------------------------------
(* Spec: the Message operations *)

DoText ==
    \E c \in Contents :
        /\ msg' = text(c)
        /\ self0' = msg'
        /\ lastOp' = Op("text", <<>>)
        /\ UNCHANGED <<buildVars, botVars, media>>

DoMarkdown ==
    \E c \in Contents :
        /\ msg' = markdown(c)
        /\ self0' = msg'
        /\ lastOp' = Op("markdown", <<>>)
        /\ UNCHANGED <<buildVars, botVars, media>>

DoImage ==
    \E d \in Images :
        /\ msg' = image(ImageNew(d))
        /\ self0' = msg'
        /\ lastOp' = Op("image", <<>>)
        /\ UNCHANGED <<buildVars, botVars, media>>

DoNews ==
    \E as \in ArticleLists :
        /\ msg' = news(as)
        /\ self0' = msg'
        /\ lastOp' = OpNews(as)
        /\ UNCHANGED <<buildVars, botVars, media>>

DoFile ==
    \E id \in MediaIds :
        /\ msg' = file(id)
        /\ self0' = msg'
        /\ lastOp' = Op("file", <<>>)
        /\ UNCHANGED <<buildVars, botVars, media>>

DoMentionedList ==
    \E ids \in IdLists :
        /\ msg' = mentioned_list(msg, ids)
        /\ self0' = msg
        /\ lastOp' = Op("mentioned_list", ids)
        /\ UNCHANGED <<buildVars, botVars, media>>

DoMentionedMobileList ==
    \E ids \in IdLists :
        /\ msg' = mentioned_mobile_list(msg, ids)
        /\ self0' = msg
        /\ lastOp' = Op("mentioned_mobile_list", ids)
        /\ UNCHANGED <<buildVars, botVars, media>>

NoCall == [pc |-> "idle"]
Modes == {"blocking", "async"}
CallIds == {"c1", "c2"}

\* no builder, no client, no call
NoMedia == [op |-> "none"]

InitNoClient ==
    /\ media = NoMedia
    /\ builder = None
    /\ built = None
    /\ bot = [m \in Modes |-> None]
    /\ calls = [c \in CallIds |-> NoCall]

Init ==
    /\ \E c \in Contents : msg = text(c)
    /\ self0 = msg
    /\ lastOp = Op("text", <<>>)
    /\ InitNoClient

Next ==
    \/ DoText
    \/ DoMarkdown
    \/ DoImage
    \/ DoNews
    \/ DoFile
    \/ DoMentionedList
    \/ DoMentionedMobileList

Spec == Init /\ [][Next]_vars

----------------------------------------------------------------------------
(* bot.rs: results and errors *)

Ok(v) == [ok |-> TRUE, val |-> v]
Err(e) == [ok |-> FALSE, err |-> e]

KeyNotFound == [kind |-> "KeyNotFound"]

----------------------------------------------------------------------------
(* bot.rs: the endpoints and format_wecom_url! *)

WECOM_SEND_URL == "https://qyapi.weixin.qq.com/cgi-bin/webhook/send"
WECOM_UPLOAD_URL == "https://qyapi.weixin.qq.com/cgi-bin/webhook/upload_media"

\* the request timeout of the default client, in seconds
DEFAULT_TIMEOUT_SECS == 10

\* a key is a sequence of characters; these are the white space among them
WhitespaceChars == {" ", "\t"}
IsWhitespace(c) == c \in WhitespaceChars

\* str::trim: leading and trailing white space removed
RECURSIVE TrimStart(_)
TrimStart(k) ==
    IF k # <<>> /\ IsWhitespace(Head(k)) THEN TrimStart(Tail(k)) ELSE k

RECURSIVE TrimEnd(_)
TrimEnd(k) ==
    IF k # <<>> /\ IsWhitespace(k[Len(k)]) THEN TrimEnd(SubSeq(k, 1, Len(k) - 1)) ELSE k

Trim(k) == TrimEnd(TrimStart(k))

\* the characters of a key as one string, as format!("{}", k) writes them
RECURSIVE Str(_)
Str(k) == IF k = <<>> THEN "" ELSE Head(k) \o Str(Tail(k))

\* the macro without the trim: only the empty key is refused
format_wecom_url_no_trim(key) ==
    IF ~key.some THEN Err(KeyNotFound)
    ELSE IF Len(key.val) = 0 THEN Err(KeyNotFound)
    ELSE Ok(<<WECOM_SEND_URL \o "?key=" \o Str(key.val),
              WECOM_UPLOAD_URL \o "?key=" \o Str(key.val)>>)

\* format_wecom_url!(key): KeyNotFound, or (send url, upload base url)
format_wecom_url(key) ==
    IF ~key.some THEN Err(KeyNotFound)
    ELSE IF Len(Trim(key.val)) = 0 THEN Err(KeyNotFound)
    ELSE Ok(<<WECOM_SEND_URL \o "?key=" \o Str(key.val),
              WECOM_UPLOAD_URL \o "?key=" \o Str(key.val)>>)

----------------------------------------------------------------------------
(* bot.rs: WeComBotBuilder and WeComBotAsyncBuilder *)

\* Self::default()
BuilderDefault(mode) == [mode |-> mode, key |-> None, client |-> None]

\* key(self, key)
BuilderKey(b, k) == [b EXCEPT !.key = Some(k)]

\* client(self, client)
BuilderClient(b, c) == [b EXCEPT !.client = Some(c)]

\* Client::builder().timeout(Duration::from_secs(10)).build().unwrap()
DefaultClient(mode) == [mode |-> mode, timeout |-> DEFAULT_TIMEOUT_SECS]

\* build(self): the urls first, then the client given or else the default one
Build(b) ==
    LET urls == format_wecom_url(b.key) IN
    IF ~urls.ok THEN Err(urls.err)
    ELSE Ok([mode |-> b.mode,
             client |-> IF b.client.some THEN b.client.val ELSE DefaultClient(b.mode),
             url |-> urls.val[1],
             upload_base_url |-> urls.val[2]])

----------------------------------------------------------------------------
(* SpecBuild: the builders *)

KeyChars == {" ", "\t", "k"}
BuilderKeys == SeqsUpTo(KeyChars, MaxKeyLen)

\* a client the caller configured itself
CustomClient(mode) == [mode |-> mode, timeout |-> 30]

DoBuilderNew ==
    \E m \in Modes :
        /\ builder' = Some(BuilderDefault(m))
        /\ built' = None
        /\ UNCHANGED <<msgVars, botVars, media>>

DoKey ==
    \E k \in BuilderKeys :
        /\ builder.some
        /\ builder' = Some(BuilderKey(builder.val, k))
        /\ UNCHANGED <<built, msgVars, botVars, media>>

DoClient ==
    /\ builder.some
    /\ builder' = Some(BuilderClient(builder.val, CustomClient(builder.val.mode)))
    /\ UNCHANGED <<built, msgVars, botVars, media>>

DoBuild ==
    /\ builder.some
    /\ built' = Some([self |-> builder.val, result |-> Build(builder.val)])
    /\ builder' = None
    /\ UNCHANGED <<msgVars, botVars, media>>

InitBuild ==
    /\ msg = text("")
    /\ self0 = msg
    /\ lastOp = Op("text", <<>>)
    /\ InitNoClient

NextBuild ==
    \/ DoBuilderNew
    \/ DoKey
    \/ DoClient
    \/ DoBuild

SpecBuild == InitBuild /\ [][NextBuild]_vars

----------------------------------------------------------------------------
(* media.rs: MediaType *)

MediaTypes == {"File", "Image", "Voice", "Video"}

\* impl ToString for MediaType
MediaTypeToString(t) ==
    CASE t = "File" -> "file"
      [] t = "Image" -> "image"
      [] t = "Voice" -> "voice"
      [] t = "Video" -> "video"

\* the characters to_string writes
MediaTypeChars(t) ==
    CASE t = "File" -> <<"f", "i", "l", "e">>
      [] t = "Image" -> <<"i", "m", "a", "g", "e">>
      [] t = "Voice" -> <<"v", "o", "i", "c", "e">>
      [] t = "Video" -> <<"v", "i", "d", "e", "o">>

UpperLetters ==
    <<"A", "B", "C", "D", "E", "F", "G", "H", "I", "J", "K", "L", "M",
      "N", "O", "P", "Q", "R", "S", "T", "U", "V", "W", "X", "Y", "Z">>
LowerLetters ==
    <<"a", "b", "c", "d", "e", "f", "g", "h", "i", "j", "k", "l", "m",
      "n", "o", "p", "q", "r", "s", "t", "u", "v", "w", "x", "y", "z">>

\* char::to_lowercase on the characters of the model: a capital letter
\* becomes its small letter, every other character stays
ToLowercaseChar(ch) ==
    IF \E i \in DOMAIN UpperLetters : UpperLetters[i] = ch
    THEN LowerLetters[CHOOSE i \in DOMAIN UpperLetters : UpperLetters[i] = ch]
    ELSE ch

ToUppercaseChar(ch) ==
    IF \E i \in DOMAIN LowerLetters : LowerLetters[i] = ch
    THEN UpperLetters[CHOOSE i \in DOMAIN LowerLetters : LowerLetters[i] = ch]
    ELSE ch

\* str::to_lowercase
to_lowercase(s) == [i \in DOMAIN s |-> ToLowercaseChar(s[i])]

\* WeComError::MediaType(String)
MediaTypeError(s) == [kind |-> "MediaType", input |-> s]

\* from_str that matches the string as it is written
from_str_case_sensitive(s) ==
    CASE s = <<"f", "i", "l", "e">> -> Ok("File")
      [] s = <<"i", "m", "a", "g", "e">> -> Ok("Image")
      [] s = <<"v", "o", "i", "c", "e">> -> Ok("Voice")
      [] s = <<"v", "i", "d", "e", "o">> -> Ok("Video")
      [] OTHER -> Err(MediaTypeError(s))

\* impl FromStr for MediaType
from_str(s) ==
    LET l == to_lowercase(s) IN
    CASE l = <<"f", "i", "l", "e">> -> Ok("File")
      [] l = <<"i", "m", "a", "g", "e">> -> Ok("Image")
      [] l = <<"v", "o", "i", "c", "e">> -> Ok("Voice")
      [] l = <<"v", "i", "d", "e", "o">> -> Ok("Video")
      [] OTHER -> Err(MediaTypeError(s))

\* the type parameter written with the variant's name
format_upload_url_variant_name(t, base) == base \o "&type=" \o t

\* MediaType::format_upload_url
format_upload_url(t, base) == base \o "&type=" \o MediaTypeToString(t)

----------------------------------------------------------------------------
(* SpecMedia: parsing and printing media kinds *)

\* every way to write a word in capital and small letters
CaseVariants(w) ==
    {s \in [DOMAIN w -> {w[i] : i \in DOMAIN w} \cup {ToUppercaseChar(w[i]) : i \in DOMAIN w}] :
        \A i \in DOMAIN w : s[i] \in {w[i], ToUppercaseChar(w[i])}}

\* strings that are no media kind: empty, cut short, with a character more,
\* with blanks around, another word
NoMediaKinds ==
    {<<>>,
     <<"f", "i", "l">>,
     <<"f", "i", "l", "e", "s">>,
     <<" ", "f", "i", "l", "e">>,
     <<"F", "i", "l", "e", " ">>,
     <<"I", "m", "a", "g", "e", "1">>,
     <<"A", "u", "d", "i", "o">>,
     <<"v", "i", "d", "e", "0">>,
     <<"V", "O", "I", "C">>}

MediaInputs == UNION {CaseVariants(MediaTypeChars(t)) : t \in MediaTypes} \cup NoMediaKinds

\* s.parse::<MediaType>()
DoFromStr ==
    \E s \in MediaInputs :
        /\ media' = [op |-> "from_str", input |-> s, result |-> from_str(s)]
        /\ UNCHANGED <<msgVars, buildVars, botVars>>

\* media_type.to_string()
DoToString ==
    \E t \in MediaTypes :
        /\ media' = [op |-> "to_string", input |-> t, chars |-> MediaTypeChars(t),
                     result |-> MediaTypeToString(t)]
        /\ UNCHANGED <<msgVars, buildVars, botVars>>

\* the string to_string returned is parsed
DoParsePrinted ==
    /\ media.op = "to_string"
    /\ media' = [op |-> "parse_printed", input |-> media.input,
                 result |-> from_str(media.chars)]
    /\ UNCHANGED <<msgVars, buildVars, botVars>>

InitMedia ==
    /\ msg = text("")
    /\ self0 = msg
    /\ lastOp = Op("text", <<>>)
    /\ InitNoClient

NextMedia ==
    \/ DoFromStr
    \/ DoToString
    \/ DoParsePrinted

SpecMedia == InitMedia /\ [][NextMedia]_vars

----------------------------------------------------------------------------
(* response.rs: SendResp, UploadResp and their Deserialize derives *)

\* std::any::type_name::<T>()
TypeName(T) ==
    CASE T = "SendResp" -> "wecom_bot::response::SendResp"
      [] T = "UploadResp" -> "wecom_bot::response::UploadResp"

\* a required field of the given JSON kind: present once, of that kind
Required(b, k, kind) == Count(b, k) = 1 /\ Get(b, k).kind = kind

\* a #[serde(default)] String field: absent, or present once as a string
Defaulted(b, k) == Count(b, k) = 0 \/ (Count(b, k) = 1 /\ Get(b, k).kind = "string")

StringOrDefault(b, k) == IF Count(b, k) = 0 THEN "" ELSE Get(b, k).str

\* serde_json on SendResp: errcode (i64) and errmsg (String), other keys ignored
DecodeSendResp(b) ==
    IF b.kind = "invalid" THEN Err("syntax")
    ELSE IF b.kind # "object" THEN Err("data")
    ELSE IF ~(Required(b, "errcode", "number") /\ Required(b, "errmsg", "string"))
    THEN Err("data")
    ELSE Ok([err_code |-> Get(b, "errcode").num, err_msg |-> Get(b, "errmsg").str])

\* an UploadResp whose five fields are all required
DecodeUploadRespStrict(b) ==
    IF b.kind = "invalid" THEN Err("syntax")
    ELSE IF b.kind # "object" THEN Err("data")
    ELSE IF ~(/\ Required(b, "errcode", "number")
              /\ Required(b, "errmsg", "string")
              /\ Required(b, "type", "string")
              /\ Required(b, "media_id", "string")
              /\ Required(b, "created_at", "string"))
    THEN Err("data")
    ELSE Ok([err_code |-> Get(b, "errcode").num,
             err_msg |-> Get(b, "errmsg").str,
             media_type |-> Get(b, "type").str,
             media_id |-> Get(b, "media_id").str,
             created_at |-> Get(b, "created_at").str])

\* serde_json on UploadResp: type, media_id and created_at default to ""
DecodeUploadResp(b) ==
    IF b.kind = "invalid" THEN Err("syntax")
    ELSE IF b.kind # "object" THEN Err("data")
    ELSE IF ~(/\ Required(b, "errcode", "number")
              /\ Required(b, "errmsg", "string")
              /\ Defaulted(b, "type")
              /\ Defaulted(b, "media_id")
              /\ Defaulted(b, "created_at"))
    THEN Err("data")
    ELSE Ok([err_code |-> Get(b, "errcode").num,
             err_msg |-> Get(b, "errmsg").str,
             media_type |-> StringOrDefault(b, "type"),
             media_id |-> StringOrDefault(b, "media_id"),
             created_at |-> StringOrDefault(b, "created_at")])

Decode(T, b) ==
    CASE T = "SendResp" -> DecodeSendResp(b)
      [] T = "UploadResp" -> DecodeUploadResp(b)

\* UploadResp::is_ok
is_ok(r) == r.err_code = 0

----------------------------------------------------------------------------
(* bot.rs: WeComError *)

\* WeComError::Network, from the reqwest error of the named stage
Network(stage) == [kind |-> "Network", source |-> stage]

\* WeComError::Http
Http(status) == [kind |-> "Http", status |-> status]

\* WeComError::data_type::<T>
data_type(T, source) == [kind |-> "DataType", source |-> source, typename |-> TypeName(T)]

\* WeComError::load_file
load_file(source) == [kind |-> "FileRead", source |-> source]

\* a status test that knows 500 only
is_server_error_500_only(status) == status = 500

\* a status test that takes every error status, 4xx as well
is_server_error_or_client(status) == status >= 400 /\ status < 600

\* StatusCode::is_server_error
is_server_error(status) == status >= 500 /\ status < 600

----------------------------------------------------------------------------
(* The transport and the file system, as the calls see them *)

\* the transport fails before any response arrives (connect, timeout, ...)
TransportFailed == [kind |-> "failed"]

\* a response arrives: its status, and its body or the failure to read it
Response(status, body) == [kind |-> "response", status |-> status, body |-> body]

\* the body cannot be read to its end
BodyLost == [kind |-> "lost"]

\* a body that is not JSON
BodyGarbage == [kind |-> "invalid"]

BodyOk == JObj(<<Member("errcode", JNum(0)), Member("errmsg", JStr("ok"))>>)

BodyRefused ==
    JObj(<<Member("errcode", JNum(93000)), Member("errmsg", JStr("invalid webhook url"))>>)

BodyUploaded ==
    JObj(<<Member("errcode", JNum(0)), Member("errmsg", JStr("ok")),
           Member("type", JStr("file")), Member("media_id", JStr("3a8asd892asd8asd")),
           Member("created_at", JStr("1380000000"))>>)

\* JSON, but not of the response types: errcode is missing
BodyNoCode == JObj(<<Member("errmsg", JStr("ok"))>>)

\* a refusal that names the type and has neither media_id nor created_at
BodyRefusedType ==
    JObj(<<Member("errcode", JNum(40058)), Member("errmsg", JStr("invalid type")),
           Member("type", JStr("voice"))>>)

Bodies == {BodyGarbage, BodyOk, BodyRefused, BodyUploaded, BodyNoCode, BodyRefusedType}
Statuses == {200, 404, 500, 599}

Outcomes ==
    {TransportFailed} \cup {Response(st, b) : st \in Statuses, b \in Bodies \cup {BodyLost}}

\* paths: the directory part and Path::file_name()
PathLogo == [dir |-> "./src/tests/imgs", file_name |-> Some("tiny-rust-logo.png")]
PathGone == [dir |-> "./src/tests/imgs", file_name |-> Some("gone.png")]
\* a directory: it opens, and reading it fails
PathDir == [dir |-> "./src/tests", file_name |-> Some("imgs")]
Paths == {PathLogo, PathGone, PathDir}

\* File::open: the open file, or the io::Error
OpenFile(path) ==
    IF path = PathGone THEN Err("NotFound") ELSE Ok(path)

\* reading a file to its end: its bytes, or the io::Error
ReadFile(path) ==
    CASE path = PathLogo -> Ok(<<137, 80, 78, 71>>)
      [] path = PathGone -> Err("NotFound")
      [] path = PathDir -> Err("IsADirectory")

----------------------------------------------------------------------------
(* bot.rs: WeComBot::send and WeComBotAsync::send *)

\* client.post(&self.url).json(&msg)
SendRequest(client, m) ==
    [method |-> "POST", url |-> client.url, json |-> Serialize(m)]

\* send written with resp.json()?, which reports a body that does not decode
\* as the transport's error
send_blocking_json(T, outcome) ==
    IF outcome.kind = "failed" THEN Err(Network("request"))
    ELSE IF is_server_error(outcome.status) THEN Err(Http(outcome.status))
    ELSE IF outcome.body.kind = "lost" THEN Err(Network("body"))
    ELSE LET d == Decode(T, outcome.body) IN
         IF d.ok THEN d ELSE Err(Network("decode"))

\* WeComBot::send::<T>: what the call returns for a transport outcome
send_blocking(T, outcome) ==
    IF outcome.kind = "failed" THEN Err(Network("request"))
    ELSE IF is_server_error(outcome.status) THEN Err(Http(outcome.status))
    ELSE IF outcome.body.kind = "lost" THEN Err(data_type(T, "io"))
    ELSE LET d == Decode(T, outcome.body) IN
         IF d.ok THEN d ELSE Err(data_type(T, d.err))

\* WeComBotAsync::send::<T>
send_async(T, outcome) ==
    IF outcome.kind = "failed" THEN Err(Network("request"))
    ELSE IF is_server_error(outcome.status) THEN Err(Http(outcome.status))
    ELSE IF outcome.body.kind = "lost" THEN Err(Network("body"))
    ELSE LET d == Decode(T, outcome.body) IN
         IF d.ok THEN d ELSE Err(data_type(T, d.err))

----------------------------------------------------------------------------
(* bot.rs: WeComBot::upload and WeComBotAsync::upload *)

\* WeComBotAsync::get_filename
get_filename(path) == IF path.file_name.some THEN path.file_name.val ELSE ""

\* the multipart form with the one part "filename", posted to the upload url;
\* content is what the part yields when the request body is written: the
\* bytes, or the io::Error of a file that is streamed and "does not read"
UploadRequest(client, t, path, content) ==
    [method |-> "POST",
     url |-> format_upload_url(t, client.upload_base_url),
     part |-> "filename",
     file_name |-> get_filename(path),
     content |-> content]

\* WeComBot::upload: resp.json()? turns every failure of the body into Network
upload_blocking(outcome) ==
    IF outcome.kind = "failed" THEN Err(Network("request"))
    ELSE IF is_server_error(outcome.status) THEN Err(Http(outcome.status))
    ELSE IF outcome.body.kind = "lost" THEN Err(Network("body"))
    ELSE LET d == Decode("UploadResp", outcome.body) IN
         IF d.ok THEN d ELSE Err(Network("decode"))

\* WeComBotAsync::upload
upload_async(outcome) ==
    IF outcome.kind = "failed" THEN Err(Network("request"))
    ELSE IF is_server_error(outcome.status) THEN Err(Http(outcome.status))
    ELSE IF outcome.body.kind = "lost" THEN Err(Network("body"))
    ELSE LET d == Decode("UploadResp", outcome.body) IN
         IF d.ok THEN d ELSE Err(data_type("UploadResp", d.err))

\* what a call returns for the outcome of its request
Returned(op, mode, outcome) ==
    CASE op = "send" /\ mode = "blocking" -> send_blocking("SendResp", outcome)
      [] op = "send" /\ mode = "async" -> send_async("SendResp", outcome)
      [] op = "upload" /\ mode = "blocking" -> upload_blocking(outcome)
      [] op = "upload" /\ mode = "async" -> upload_async(outcome)

----------------------------------------------------------------------------
(* SpecBot: send and upload calls on the built clients *)

BotKeys == {<<"k">>, <<"k", " ">>}
SendMsgs == {mentioned_list(text("Title"), <<"", "uid2">>), file("3a8asd892asd8asd")}

Call(pc, op, mode, arg, requests, outcome, result) ==
    [pc |-> pc, op |-> op, mode |-> mode, arg |-> arg,
     requests |-> requests, outcome |-> outcome, result |-> result]

\* send(msg) is called: the request goes out
DoSend ==
    \E c \in CallIds, m \in Modes, x \in SendMsgs :
        /\ calls[c].pc = "idle"
        /\ bot[m].some
        /\ calls' = [calls EXCEPT ![c] =
              Call("awaiting", "send", m, x, <<SendRequest(bot[m].val, x)>>, None, None)]
        /\ UNCHANGED <<bot, msgVars, buildVars, media>>

\* an upload that keeps the url it posts to in the client
DoUploadSharedUrl ==
    \E c \in CallIds, m \in Modes, t \in MediaTypes, p \in Paths :
        /\ calls[c].pc = "idle"
        /\ bot[m].some
        /\ calls' = [calls EXCEPT ![c] =
              Call("reading", "upload", m, [media_type |-> t, path |-> p], <<>>, None, None)]
        /\ bot' = [bot EXCEPT ![m] =
              Some([@.val EXCEPT !.upload_base_url = format_upload_url(t, @)])]
        /\ UNCHANGED <<msgVars, buildVars, media>>

\* upload(media_type, path) is called
DoUpload ==
    \E c \in CallIds, m \in Modes, t \in MediaTypes, p \in Paths :
        /\ calls[c].pc = "idle"
        /\ bot[m].some
        /\ calls' = [calls EXCEPT ![c] =
              Call("reading", "upload", m, [media_type |-> t, path |-> p], <<>>, None, None)]
        /\ UNCHANGED <<bot, msgVars, buildVars, media>>

\* what upload does with the path before the request: the blocking client's
\* Form::file opens the file and hands the open file to the form, which reads
\* it while the request body is written; the async client's tokio::fs::read
\* reads it to its end. Ok carries the content of the part.
TakeFile(mode, path) ==
    IF mode = "blocking"
    THEN LET f == OpenFile(path) IN IF f.ok THEN Ok(ReadFile(path)) ELSE f
    ELSE LET f == ReadFile(path) IN IF f.ok THEN Ok(f) ELSE f

\* upload takes the file: FileRead if that fails, else the request goes out
DoReadFile ==
    \E c \in CallIds :
        /\ calls[c].pc = "reading"
        /\ LET k == calls[c]
               f == TakeFile(k.mode, k.arg.path)
           IN
           calls' = [calls EXCEPT ![c] =
              IF f.ok
              THEN [k EXCEPT !.pc = "awaiting",
                             !.requests = <<UploadRequest(bot[k.mode].val, k.arg.media_type,
                                                          k.arg.path, f.val)>>]
              ELSE [k EXCEPT !.pc = "done", !.result = Some(Err(load_file(f.err)))]]
        /\ UNCHANGED <<bot, msgVars, buildVars, media>>

\* a call that answers a transport failure by sending its request again
DoTransportFailRetry ==
    \E c \in CallIds :
        /\ calls[c].pc = "awaiting"
        /\ Len(calls[c].requests) < 3
        /\ calls' = [calls EXCEPT ![c] =
              [@ EXCEPT !.requests = Append(@, calls[c].requests[1])]]
        /\ UNCHANGED <<bot, msgVars, buildVars, media>>

\* the transport fails before a response, or the request body cannot be
\* written to its end
DoTransportFail ==
    \E c \in CallIds :
        /\ calls[c].pc = "awaiting"
        /\ calls' = [calls EXCEPT ![c] =
              [@ EXCEPT !.pc = "done",
                        !.outcome = Some(TransportFailed),
                        !.result = Some(Returned(calls[c].op, calls[c].mode,
                                                 TransportFailed))]]
        /\ UNCHANGED <<bot, msgVars, buildVars, media>>

\* a response arrives, to a request that was written to its end, and the
\* call returns
DoRespond ==
    \E c \in CallIds, st \in Statuses, b \in Bodies \cup {BodyLost} :
        /\ calls[c].pc = "awaiting"
        /\ calls[c].op = "upload" => calls[c].requests[1].content.ok
        /\ calls' = [calls EXCEPT ![c] =
              [@ EXCEPT !.pc = "done",
                        !.outcome = Some(Response(st, b)),
                        !.result = Some(Returned(calls[c].op, calls[c].mode,
                                                 Response(st, b)))]]
        /\ UNCHANGED <<bot, msgVars, buildVars, media>>

\* the caller takes the result
DoReturn ==
    \E c \in CallIds :
        /\ calls[c].pc = "done"
        /\ calls' = [calls EXCEPT ![c] = NoCall]
        /\ UNCHANGED <<bot, msgVars, buildVars, media>>

InitBot ==
    /\ msg = text("")
    /\ self0 = msg
    /\ lastOp = Op("text", <<>>)
    /\ builder = None
    /\ built = None
    /\ \E k \in BotKeys :
          bot = [m \in Modes |-> Some(Build(BuilderKey(BuilderDefault(m), k)).val)]
    /\ calls = [c \in CallIds |-> NoCall]
    /\ media = NoMedia

NextBot ==
    \/ DoSend
    \/ DoUpload
    \/ DoReadFile
    \/ DoTransportFail
    \/ DoRespond
    \/ DoReturn

SpecBot == InitBot /\ [][NextBot]_vars

----------------------------------------------------------------------------
(* Properties of the Message model, checked under Spec *)

MentionOps == {"mentioned_list", "mentioned_mobile_list"}

\* the wire tag the data model gives each variant
TagOf(variant) ==
    CASE variant = "Text" -> "text"
      [] variant = "Markdown" -> "markdown"
      [] variant = "Image" -> "image"
      [] variant = "News" -> "news"
      [] variant = "File" -> "file"

\* the members of a serialized message other than msgtype
PayloadKeys(s) == {i \in DOMAIN s.members : s.members[i].key # "msgtype"}

\* the payload object of a serialized message
Payload(s) == s.members[CHOOSE i \in PayloadKeys(s) : TRUE].val

\* no value of a JSON document is null
RECURSIVE NoNull(_)
NoNull(j) ==
    CASE j.kind = "null" -> FALSE
      [] j.kind = "array" -> \A i \in DOMAIN j.items : NoNull(j.items[i])
      [] j.kind = "object" -> \A i \in DOMAIN j.members : NoNull(j.members[i].val)
      [] OTHER -> TRUE

\* C1: every message built by one constructor and any number of mention
\* calls serializes to an object with one msgtype member, equal to the wire
\* tag of the populated variant, and exactly one payload member, whose key
\* is that same tag.
C1_TagNamesPayload ==
    LET s == Serialize(msg) IN
    /\ s.kind = "object"
    /\ Count(s, "msgtype") = 1
    /\ Get(s, "msgtype") = JStr(TagOf(msg.body.variant))
    /\ Cardinality(PayloadKeys(s)) = 1
    /\ \A i \in PayloadKeys(s) :
          /\ s.members[i].key \in WireTags
          /\ JStr(s.members[i].key) = Get(s, "msgtype")
          /\ s.members[i].val.kind = "object"

C1_Witness ==
    /\ lastOp.name = "mentioned_mobile_list"
    /\ lastOp.ids # <<>>
    /\ msg.body.variant = "Markdown"
    /\ Serialize(msg).members[2].key = "markdown"

\* C2: an optional field that was never set is not a key of the serialized
\* object and no value is ever null; an article's pic_url, when set, is
\* written under the key picurl.
C2_UnsetOptionalsOmitted ==
    LET s == Serialize(msg)
        p == Payload(s)
    IN
    /\ NoNull(s)
    /\ msg.body.variant = "Text" =>
          /\ ~msg.body.mentioned_list.some => ~HasKey(p, "mentioned_list")
          /\ ~msg.body.mentioned_mobile_list.some => ~HasKey(p, "mentioned_mobile_list")
    /\ msg.body.variant = "News" =>
          \A i \in DOMAIN msg.body.articles :
              LET a == msg.body.articles[i]
                  o == Get(p, "articles").items[i]
              IN
              /\ ~a.description.some => ~HasKey(o, "description")
              /\ ~a.pic_url.some => ~HasKey(o, "picurl")
              /\ ~HasKey(o, "pic_url")
              /\ a.pic_url.some =>
                    /\ Count(o, "picurl") = 1
                    /\ Get(o, "picurl") = JStr(a.pic_url.val)

C2_Witness ==
    /\ msg.body.variant = "News"
    /\ Len(msg.body.articles) = 2
    /\ ~msg.body.articles[1].description.some
    /\ ~msg.body.articles[1].pic_url.some
    /\ msg.body.articles[2].pic_url.some
    /\ Keys(Get(Payload(Serialize(msg)), "articles").items[1]) = {"title", "url"}

\* C3: a mention setter called on a Markdown, Image, News or File message
\* returns the receiver unchanged, and the result serializes as the receiver
\* does.
C3_SetterNoOpOnNonText ==
    (lastOp.name \in MentionOps /\ self0.body.variant # "Text") =>
        /\ msg = self0
        /\ Serialize(msg) = Serialize(self0)

C3_Witness ==
    /\ lastOp.name = "mentioned_list"
    /\ lastOp.ids = <<"", "uid2">>
    /\ self0.body.variant = "News"
    /\ Len(self0.body.articles) > 0

\* C4: on a Text message mentioned_list(ids) makes mentioned_list exactly
\* ids, in order, replacing any earlier list, and leaves content and
\* mentioned_mobile_list as they were; mentioned_mobile_list(ids) does the
\* same with the two lists exchanged.
C4_SetterSetsOnlyItsField ==
    LET p == Payload(Serialize(msg)) IN
    /\ (lastOp.name = "mentioned_list" /\ self0.body.variant = "Text") =>
          /\ msg.body.mentioned_list = Some(lastOp.ids)
          /\ msg.body.mentioned_mobile_list = self0.body.mentioned_mobile_list
          /\ msg.body.content = self0.body.content
          /\ msg.body.variant = "Text"
          /\ msg.msg_type = self0.msg_type
          /\ Get(p, "mentioned_list") = SerStrList(lastOp.ids)
    /\ (lastOp.name = "mentioned_mobile_list" /\ self0.body.variant = "Text") =>
          /\ msg.body.mentioned_mobile_list = Some(lastOp.ids)
          /\ msg.body.mentioned_list = self0.body.mentioned_list
          /\ msg.body.content = self0.body.content
          /\ msg.body.variant = "Text"
          /\ msg.msg_type = self0.msg_type
          /\ Get(p, "mentioned_mobile_list") = SerStrList(lastOp.ids)

C4_Witness ==
    /\ lastOp.name = "mentioned_list"
    /\ lastOp.ids = <<"", "uid2">>
    /\ self0.body.variant = "Text"
    /\ self0.body.mentioned_list = Some(<<"uid2">>)
    /\ self0.body.mentioned_mobile_list.some
    /\ msg.body.mentioned_list.val = <<"", "uid2">>

----------------------------------------------------------------------------
(* Properties of the builders, checked under SpecBuild *)

\* the requests the calls have issued
Issued == {c \in CallIds : calls[c].pc # "idle"}

\* C5: build() on a builder with no key, an empty key or a key of white
\* space only returns KeyNotFound, for either builder, and issues no request;
\* with a key holding a character that is not white space it returns a client.
C5_BlankKeyRefused ==
    built.some =>
        LET k == built.val.self.key
            r == built.val.result
            blank == ~k.some \/ \A i \in DOMAIN k.val : k.val[i] \in WhitespaceChars
        IN
        /\ blank => r = Err(KeyNotFound)
        /\ ~blank => r.ok /\ r.val.mode = built.val.self.mode
        /\ Issued = {}
        /\ \A m \in Modes : ~bot[m].some

C5_Witness ==
    /\ built.some
    /\ built.val.self.mode = "async"
    /\ built.val.self.key = Some(<<" ", "\t">>)
    /\ built.val.result = Err(KeyNotFound)

----------------------------------------------------------------------------
(* Properties of send and upload, checked under SpecBot *)

\* the calls of an operation that have returned after a response arrived
Answered(op) ==
    {c \in CallIds : /\ calls[c].pc = "done"
                     /\ calls[c].op = op
                     /\ calls[c].outcome.some
                     /\ calls[c].outcome.val.kind = "response"}

Is5xx(status) == status \in 500..599

\* the body arrived whole
Received(b) == b.kind # "lost"

\* a body that is a JSON object with one integer errcode and one string errmsg
SendRespJson(b) ==
    /\ b.kind = "object"
    /\ Cardinality({i \in DOMAIN b.members : b.members[i].key = "errcode"}) = 1
    /\ Cardinality({i \in DOMAIN b.members : b.members[i].key = "errmsg"}) = 1
    /\ \A i \in DOMAIN b.members :
          /\ b.members[i].key = "errcode" => b.members[i].val.kind = "number"
          /\ b.members[i].key = "errmsg" => b.members[i].val.kind = "string"

\* a SendResp body whose type, media_id and created_at, where present, are strings
UploadRespJson(b) ==
    /\ SendRespJson(b)
    /\ \A k \in {"type", "media_id", "created_at"} :
          /\ Count(b, k) <= 1
          /\ \A i \in DOMAIN b.members :
                b.members[i].key = k => b.members[i].val.kind = "string"

\* C6: a send whose response has a 5xx status returns the Http error with
\* that status, whatever the body is; no SendResp is returned.
C6_ServerErrorIsHttp ==
    \A c \in Answered("send") :
        LET o == calls[c].outcome.val IN
        Is5xx(o.status) => calls[c].result = Some(Err([kind |-> "Http", status |-> o.status]))

C6_Witness ==
    \E c \in Answered("send") :
        /\ calls[c].outcome.val = Response(599, BodyOk)
        /\ calls[c].result.val.err.kind = "Http"

\* C7: a send whose response is not 5xx and whose body is valid JSON for
\* SendResp returns the decoded SendResp, also when errcode is not zero and
\* when the status is 4xx.
C7_LogicalErrorIsDecoded ==
    \A c \in Answered("send") :
        LET o == calls[c].outcome.val IN
        (~Is5xx(o.status) /\ Received(o.body) /\ SendRespJson(o.body)) =>
            /\ calls[c].result.some
            /\ calls[c].result.val.ok
            /\ calls[c].result.val.val = [err_code |-> Get(o.body, "errcode").num,
                                           err_msg |-> Get(o.body, "errmsg").str]

C7_Witness ==
    \E c \in Answered("send") :
        /\ calls[c].outcome.val = Response(404, BodyRefused)
        /\ calls[c].result.val.ok
        /\ calls[c].result.val.val.err_code = 93000

\* C8: a send whose response is not 5xx and whose body arrived but is not
\* valid JSON for SendResp returns the DataType error naming SendResp.
C8_BadBodyIsDataType ==
    \A c \in Answered("send") :
        LET o == calls[c].outcome.val IN
        (~Is5xx(o.status) /\ Received(o.body) /\ ~SendRespJson(o.body)) =>
            /\ calls[c].result.some
            /\ ~calls[c].result.val.ok
            /\ calls[c].result.val.err.kind = "DataType"
            /\ calls[c].result.val.err.typename = "wecom_bot::response::SendResp"

C8_Witness ==
    \E c \in Answered("send") :
        /\ calls[c].mode = "blocking"
        /\ calls[c].outcome.val = Response(200, BodyNoCode)
        /\ calls[c].result.val.err.kind = "DataType"

\* the kind of what a call returned: "Ok", or the error's kind
KindOf(r) == IF r.ok THEN "Ok" ELSE r.err.kind

\* C9: upload handles a response as send does: a 5xx status gives the Http
\* error, and a body that arrived but is not valid JSON for UploadResp gives
\* the DataType error naming UploadResp, the error kind send returns for a
\* body it cannot decode.
C9_UploadHandlesLikeSend ==
    \A c \in Answered("upload") :
        LET o == calls[c].outcome.val
            r == calls[c].result.val
        IN
        /\ Is5xx(o.status) => r = Err([kind |-> "Http", status |-> o.status])
        /\ (~Is5xx(o.status) /\ Received(o.body) /\ ~UploadRespJson(o.body)) =>
              /\ ~r.ok
              /\ r.err.kind = "DataType"
              /\ r.err.typename = "wecom_bot::response::UploadResp"
              /\ r.err.kind = KindOf(Returned("send", calls[c].mode,
                                              Response(o.status, BodyGarbage)))

\* the other client
Other(mode) == IF mode = "blocking" THEN "async" ELSE "blocking"

\* C10: the blocking and the async client agree: for the same arguments and
\* the same transport outcome a call targets the url the other client would
\* target and returns what the other client would return, the same value or
\* the same kind of error.
C10_BlockingAsyncAgree ==
    \A c \in CallIds :
        (calls[c].pc = "done" /\ calls[c].outcome.some) =>
            LET k == calls[c]
                o == k.outcome.val
                mine == k.result.val
                theirs == Returned(k.op, Other(k.mode), o)
                target == IF k.op = "send"
                          THEN bot[Other(k.mode)].val.url
                          ELSE format_upload_url(k.arg.media_type,
                                                 bot[Other(k.mode)].val.upload_base_url)
            IN
            /\ Len(k.requests) = 1
            /\ k.requests[1].url = target
            /\ KindOf(mine) = KindOf(theirs)
            /\ mine.ok => mine = theirs

\* a call in flight has issued one request at most, none while it reads its
\* file, and it has returned as soon as the outcome of its request is known
OneRequest ==
    \A c \in CallIds :
        calls[c].pc # "idle" =>
            LET k == calls[c] IN
            /\ Len(k.requests) <= 1
            /\ k.pc = "reading" => (k.requests = <<>> /\ ~k.outcome.some /\ ~k.result.some)
            /\ k.pc = "awaiting" => (Len(k.requests) = 1 /\ ~k.outcome.some /\ ~k.result.some)
            /\ k.outcome.some => (k.pc = "done" /\ Len(k.requests) = 1)
            /\ k.pc = "done" => k.result.some
            /\ (k.outcome.some /\ k.outcome.val.kind = "failed") =>
                  (~k.result.val.ok /\ k.result.val.err.kind = "Network")
            /\ (k.outcome.some /\ k.outcome.val.kind = "response"
                               /\ Is5xx(k.outcome.val.status)) =>
                  (~k.result.val.ok /\ k.result.val.err.kind = "Http")

\* C11: a send or upload call issues at most one request; the step that
\* brings the outcome of that request (a failure, a timeout, a 5xx status, a
\* body that does not decode, or a success) ends the call with its result and
\* issues nothing, and a call that has ended only hands its result back.
C11_NoRetry ==
    [][/\ OneRequest'
       /\ \A c \in CallIds :
            /\ (calls[c].pc = "awaiting" /\ calls'[c] # calls[c]) =>
                  /\ calls'[c].pc = "done"
                  /\ calls'[c].requests = calls[c].requests
                  /\ calls'[c].outcome.some
                  /\ calls'[c].result.some
            /\ (calls[c].pc = "done" /\ calls'[c] # calls[c]) => calls'[c] = NoCall
      ]_vars

C11_Witness ==
    \E c \in CallIds :
        /\ calls[c].pc = "done"
        /\ calls[c].op = "upload"
        /\ calls[c].outcome = Some(TransportFailed)
        /\ calls[c].result = Some(Err(Network("request")))
        /\ Len(calls[c].requests) = 1

\* C14: an upload whose file cannot be opened or read has, once it is past
\* taking the file, returned FileRead with the io::Error and issued no
\* request, in the blocking and in the async client.
C14_UnreadableFileIsFileRead ==
    \A c \in CallIds :
        (/\ calls[c].pc \in {"awaiting", "done"}
         /\ calls[c].op = "upload"
         /\ ~ReadFile(calls[c].arg.path).ok) =>
            /\ calls[c].pc = "done"
            /\ calls[c].requests = <<>>
            /\ calls[c].result = Some(Err(load_file(ReadFile(calls[c].arg.path).err)))

\* the request a call makes, from the client's configuration and the call's
\* own arguments
OwnRequest(k) ==
    IF k.op = "send"
    THEN SendRequest(bot[k.mode].val, k.arg)
    ELSE UploadRequest(bot[k.mode].val, k.arg.media_type, k.arg.path,
                       TakeFile(k.mode, k.arg.path).val)

\* the result a call returns, from its own arguments and its own response
OwnResult(k) ==
    IF k.outcome.some
    THEN Returned(k.op, k.mode, k.outcome.val)
    ELSE Err(load_file(TakeFile(k.mode, k.arg.path).err))

\* every call in flight or completed made its own request and holds its own
\* result
CallsOwn ==
    \A c \in CallIds :
        calls[c].pc # "idle" =>
            /\ \A i \in DOMAIN calls[c].requests : calls[c].requests[i] = OwnRequest(calls[c])
            /\ calls[c].result.some => calls[c].result.val = OwnResult(calls[c])

\* the clients that build() returns for the keys of SpecBot
BuiltClients ==
    [m \in Modes |-> {Some(Build(BuilderKey(BuilderDefault(m), k)).val) : k \in BotKeys}]

\* C12: no step of any interleaving of send and upload calls on the built
\* clients changes a client's configuration (url, upload_base_url); a step of
\* one call leaves every other call as it was; and after every step each call
\* has made the request of its own arguments and holds the result of its own
\* arguments and its own response.
C12_CallsIndependent ==
    [][/\ bot' = bot
       /\ \A m \in Modes : bot'[m] \in BuiltClients[m]
       /\ \A c, d \in CallIds : (c # d /\ calls'[c] # calls[c]) => calls'[d] = calls[d]
       /\ CallsOwn'
      ]_vars

\* two calls completed side by side on the same client, with different results
C12_Witness ==
    /\ calls["c1"].pc = "done" /\ calls["c2"].pc = "done"
    /\ calls["c1"].mode = calls["c2"].mode
    /\ calls["c1"].op = "send" /\ calls["c2"].op = "upload"
    /\ calls["c1"].result.val.ok
    /\ calls["c2"].outcome.some
    /\ ~calls["c2"].result.val.ok

\* the key a client of SpecBot was built with
KeyOf(client) ==
    CHOOSE k \in BotKeys :
        client = Build(BuilderKey(BuilderDefault(client.mode), k)).val

\* the lowercase names of the media kinds
LowercaseName(t) ==
    CASE t = "File" -> "file"
      [] t = "Image" -> "image"
      [] t = "Voice" -> "voice"
      [] t = "Video" -> "video"

\* C13: on a client built with key k, the url every send call hands to
\* client.post is the send endpoint followed by ?key=k, and the url every
\* upload call of media kind m hands to it is the upload endpoint followed
\* by ?key=k&type=<m>, <m> the lowercase name of the kind; k is written
\* character for character as it was supplied.
C13_RequestUrls ==
    \A c \in CallIds :
        calls[c].pc # "idle" =>
            LET k == calls[c]
                key == Str(KeyOf(bot[k.mode].val))
            IN
            \A i \in DOMAIN k.requests :
                /\ k.requests[i].method = "POST"
                /\ k.op = "send" =>
                      k.requests[i].url =
                         "https://qyapi.weixin.qq.com/cgi-bin/webhook/send" \o "?key=" \o key
                /\ k.op = "upload" =>
                      k.requests[i].url =
                         "https://qyapi.weixin.qq.com/cgi-bin/webhook/upload_media"
                            \o "?key=" \o key \o "&type=" \o LowercaseName(k.arg.media_type)

C13_Witness ==
    /\ bot["async"].val.url = "https://qyapi.weixin.qq.com/cgi-bin/webhook/send?key=k "
    /\ \E c \in CallIds :
          /\ calls[c].pc = "awaiting"
          /\ calls[c].op = "upload"
          /\ calls[c].mode = "async"
          /\ calls[c].arg.media_type = "Voice"
          /\ calls[c].requests[1].url =
                "https://qyapi.weixin.qq.com/cgi-bin/webhook/upload_media?key=k &type=voice"

\* the string a body holds under a key, "" where the key is absent
FieldOrEmpty(b, key) ==
    IF \E i \in DOMAIN b.members : b.members[i].key = key
    THEN b.members[CHOOSE i \in DOMAIN b.members : b.members[i].key = key].val.str
    ELSE ""

\* C16: an upload whose response (not 5xx) has a JSON body with errcode and
\* errmsg returns a decoded UploadResp whether or not type, media_id and
\* created_at are there: each absent field is the empty string, each present
\* one its value, and is_ok() is false exactly when errcode is not 0.
C16_MissingTrailingFieldsDefault ==
    \A c \in Answered("upload") :
        LET o == calls[c].outcome.val
            r == calls[c].result.val
        IN
        (~Is5xx(o.status) /\ Received(o.body) /\ UploadRespJson(o.body)) =>
            /\ r.ok
            /\ r.val.err_code = o.body.members[1].val.num
            /\ r.val.media_type = FieldOrEmpty(o.body, "type")
            /\ r.val.media_id = FieldOrEmpty(o.body, "media_id")
            /\ r.val.created_at = FieldOrEmpty(o.body, "created_at")
            /\ is_ok(r.val) <=> r.val.err_code = 0
            /\ (o.body.members[1].val.num # 0) => ~is_ok(r.val)

\* a refusal with no media_id came back decoded, from either client
C16_Witness ==
    \A m \in Modes :
        \E c \in Answered("upload") :
            /\ calls[c].mode = m
            /\ calls[c].outcome.val = Response(200, BodyRefusedType)
            /\ calls[c].result.val.ok
            /\ calls[c].result.val.val =
                  [err_code |-> 40058, err_msg |-> "invalid type", media_type |-> "voice",
                   media_id |-> "", created_at |-> ""]
            /\ ~is_ok(calls[c].result.val.val)

\* C17: the message news(articles) returns holds the articles it was given,
\* as many and in the same order, for a list of any length (none, one, eight,
\* more than eight), and its serialized form lists them in that order.
C17_NewsKeepsArticles ==
    lastOp.name = "news" =>
        LET given == lastOp.articles
            arr == Get(Payload(Serialize(msg)), "articles")
        IN
        /\ msg.msg_type = "news"
        /\ msg.body.variant = "News"
        /\ Len(msg.body.articles) = Len(given)
        /\ \A i \in 1..Len(given) : msg.body.articles[i] = given[i]
        /\ arr.kind = "array"
        /\ Len(arr.items) = Len(given)
        /\ \A i \in 1..Len(given) :
              /\ Get(arr.items[i], "title") = JStr(given[i].title)
              /\ Get(arr.items[i], "url") = JStr(given[i].url)
              /\ HasKey(arr.items[i], "description") <=> given[i].description.some
              /\ HasKey(arr.items[i], "picurl") <=> given[i].pic_url.some

\* nine articles went in and nine came out, the last one last
C17_Witness ==
    /\ lastOp.name = "news"
    /\ Len(lastOp.articles) = 9
    /\ Len(msg.body.articles) = 9
    /\ msg.body.articles[9].title = "T9"
    /\ Get(Get(Payload(Serialize(msg)), "articles").items[9], "title") = JStr("T9")

----------------------------------------------------------------------------
(* Properties of MediaType, checked under SpecMedia *)

MediaKindNames == {"file", "image", "voice", "video"}

\* C15: to_string of a media kind is its lowercase name, and parsing that
\* string gives the kind back; from_str accepts a string exactly when its
\* lowercase form is file, image, voice or video, returning the kind of that
\* name, and fails on every other string with the MediaType error that
\* carries the string as it was supplied.
C15_MediaTypeRoundTrip ==
    /\ media.op = "to_string" =>
          /\ media.result = LowercaseName(media.input)
          /\ Str(media.chars) = media.result
          /\ media.result \in MediaKindNames
    /\ media.op = "parse_printed" => media.result = Ok(media.input)
    /\ media.op = "from_str" =>
          LET lowered == Str(to_lowercase(media.input)) IN
          /\ lowered \in MediaKindNames =>
                /\ media.result.ok
                /\ media.result.val \in MediaTypes
                /\ LowercaseName(media.result.val) = lowered
          /\ lowered \notin MediaKindNames =>
                media.result = Err([kind |-> "MediaType", input |-> media.input])

\* a kind written in capital and small letters was parsed
C15_Witness ==
    /\ media.op = "from_str"
    /\ media.input = <<"V", "o", "I", "c", "E">>
    /\ media.result = Ok("Voice")

====
